---------------------------- MODULE Spec2Model ----------------------------
(***************************************************************************)
(* A model of ZIMply (src/zimply/zimply.py): the ZIM archive reader        *)
(* (directory lookup, redirect resolution, cluster decoding with its LRU   *)
(* cache) and the request handler with its archive registry.               *)
(*                                                                         *)
(* Strings are sequences of character codes, so that Python's string       *)
(* comparison (lexicographic by code point) is computed, not assumed.      *)
(***************************************************************************)
EXTENDS Integers, Sequences, FiniteSets, TLC

(***************************************************************************)
(* Bounds of the model.                                                    *)
(***************************************************************************)
\* the largest articleCount of the archives the directory lookup is run on
MaxArticles == 3
\* the number of _get_article_by_index calls made on one archive
MaxReads == 2
\* the calls made on the archive the cluster cache is exercised with, beyond
\* the cache's capacity
CacheExtraReads == 2
\* chunk_size of ClusterData._decompress (32768 in the source), scaled to
\* the size of the model's clusters
chunk_size == 4
\* maxsize of the lru_cache on ClusterData (32 in the source), scaled to the
\* number of clusters of the model's archives
maxsize == 2
\* the depth at which the interpreter ends a recursion with RecursionError
\* (sys.getrecursionlimit(), 1000 by default), scaled
RecursionLimit == 18
\* the depth cap the specification asks of a redirect chase
DepthCap == 16

(***************************************************************************)
(* Program constants.                                                      *)
(***************************************************************************)
\* the mimetype value that marks a redirect entry (0xffff)
REDIRECT_MIME == 65535
\* the index for which _read_offset reads nothing: 0xffffffff, written here as
\* the signed 32-bit value of that bit pattern
NO_INDEX == -1

\* Python's None, as the value of a variable that holds an entry or an index
None == [tag |-> "None"]
\* a Python int, as the value of such a variable
PyInt(i) == [tag |-> "int", val |-> i]
\* an exception leaving the function (struct.error, KeyError, ...)
Raised(what) == [tag |-> "raise", error |-> what]
\* the value of  _get_article_by_index(i)  as returned by a caller
ArticleByIndex(i) == [tag |-> "article_by_index", index |-> i]

(***************************************************************************)
(* Strings.                                                                *)
(***************************************************************************)
SLASH == <<47>>
NS_DASH == <<45>>
NS_A == <<65>>
URL_B == <<66>>
URL_BB == <<66, 66>>
URL_C == <<67>>

MinOf(a, b) == IF a <= b THEN a ELSE b

\* Python's  s < t  on str: the first differing code point decides, and a
\* proper prefix is smaller
StrLess(s, t) ==
    \E k \in 1..(MinOf(Len(s), Len(t)) + 1) :
        /\ \A j \in 1..(k - 1) : s[j] = t[j]
        /\ \/ k > Len(s) /\ k <= Len(t)
           \/ k <= Len(s) /\ k <= Len(t) /\ s[k] < t[k]

\* full_url(namespace, url): str(namespace) + '/' + str(url)
full_url(namespace, url) == namespace \o SLASH \o url

(***************************************************************************)
(* Directory entries.  A directory is the sequence of entries in URL       *)
(* pointer table order; entry index i is element i + 1.                    *)
(***************************************************************************)
ArticleEntry(ns, url, cluster, blob) ==
    [tag |-> "entry", mimetype |-> 0, namespace |-> ns, url |-> url,
     clusterNumber |-> cluster, blobNumber |-> blob, redirectIndex |-> -1,
     index |-> -1]

RedirectEntry(ns, url, to) ==
    [tag |-> "entry", mimetype |-> REDIRECT_MIME, namespace |-> ns, url |-> url,
     clusterNumber |-> -1, blobNumber |-> -1, redirectIndex |-> to,
     index |-> -1]

\* 'redirectIndex' in entry.keys(): _read_directory_entry parses the record
\* as a redirect exactly when its mimetype field is 0xffff
IsRedirect(entry) == entry.mimetype = REDIRECT_MIME

Namespaces == {NS_DASH, NS_A}
Urls == {URL_B, URL_BB, URL_C}
Keys == {<<ns, url>> : ns \in Namespaces, url \in Urls}

\* the URL pointer table is strictly sorted by namespace + "/" + url
StrictlySorted(d) ==
    \A i \in 1..(Len(d) - 1) :
        StrLess(full_url(d[i].namespace, d[i].url),
                full_url(d[i + 1].namespace, d[i + 1].url))

LookupEntries ==
    {ArticleEntry(k[1], k[2], 0, 0) : k \in Keys}
        \cup {RedirectEntry(k[1], k[2], 0) : k \in Keys}

SeqsUpTo(S, n) == UNION {[1..m -> S] : m \in 0..n}

LookupDirectories == {d \in SeqsUpTo(LookupEntries, MaxArticles) : StrictlySorted(d)}

\* What the file holds right after the URL pointer table, read as if it were
\* pointer slot articleCount: the bytes belong to another table, so the read
\* either fails (struct.error on a short read) or yields some record.
BeyondTable == {Raised("struct.error")} \cup {ArticleEntry(k[1], k[2], 0, 0) : k \in Keys}


(***************************************************************************)
(* The bytes of an archive file.  A file is a sequence of byte values;     *)
(* file position p is element p + 1.  A compressed stream is a sequence of *)
(* symbols outside the byte range: Z_BASE + b decompresses to the byte b,  *)
(* Z_EOS ends the stream (the LZMA end marker, the end of the Zstandard    *)
(* frame), Z_BAD is a symbol no valid stream holds.                        *)
(***************************************************************************)
Z_BASE == 256
Z_EOS == Z_BASE + 256
Z_BAD == Z_EOS + 1

IsZData(x) == x >= Z_BASE /\ x < Z_EOS

\* pack("<I", v)
PackU32(v) ==
    <<v % 256, (v \div 256) % 256, (v \div 65536) % 256, (v \div 16777216) % 256>>

\* unpack("<I", b)[0]; struct.error when b is not 4 bytes long
UnpackU32(b) == b[1] + 256 * b[2] + 65536 * b[3] + 16777216 * b[4]

RECURSIVE Flatten(_)
Flatten(ss) == IF ss = <<>> THEN <<>> ELSE Head(ss) \o Flatten(Tail(ss))

RECURSIVE SumLen(_, _)
\* the total length of the first n sequences of ss
SumLen(ss, n) == IF n = 0 THEN 0 ELSE SumLen(ss, n - 1) + Len(ss[n])

\* the blob-offset table of a cluster: offset[0] = 4 * (blob_count + 1)
BlobOffsets(blobs) ==
    [i \in 1..(Len(blobs) + 1) |-> 4 * (Len(blobs) + 1) + SumLen(blobs, i - 1)]

\* the decompressed payload of a cluster: the offset table, then the blobs
Payload(blobs) ==
    Flatten([i \in 1..(Len(blobs) + 1) |-> PackU32(BlobOffsets(blobs)[i])])
        \o Flatten(blobs)

\* the compressed stream of a payload; bad > 0 puts an invalid symbol in
\* place of symbol number bad
Compress(payload, bad) ==
    [i \in 1..(Len(payload) + 1) |->
        IF i = bad THEN Z_BAD
        ELSE IF i <= Len(payload) THEN Z_BASE + payload[i] ELSE Z_EOS]

\* a cluster on disk: the compression type byte, then the payload or its
\* compressed stream
ClusterBytes(cl) ==
    <<cl.type>> \o (IF cl.type \in {4, 5}
                      THEN Compress(Payload(cl.blobs), cl.bad)
                      ELSE Payload(cl.blobs))

\* what precedes the first cluster and what follows the last one (header and
\* tables, the checksum)
FilePrefix == <<90, 73, 77>>
FileSuffix == <<7, 7>>

FileOf(cls) ==
    FilePrefix \o Flatten([c \in 1..Len(cls) |-> ClusterBytes(cls[c])]) \o FileSuffix

\* the cluster pointer table: the absolute offset of every cluster
ClusterPtrOf(cls) ==
    [c \in 1..Len(cls) |->
        Len(FilePrefix) + SumLen([k \in 1..Len(cls) |-> ClusterBytes(cls[k])], c - 1)]

\* file.seek(pos); file.read(n): at most n bytes, fewer at end of file, and
\* everything up to end of file for a negative n
ReadAt(f, pos, n) ==
    LET last == IF n < 0 THEN Len(f) ELSE MinOf(pos + n, Len(f))
    IN  IF pos >= last THEN <<>> ELSE SubSeq(f, pos + 1, last)

\* the blobs of cluster number c of the model's archives: an even cluster
\* holds one blob of 5 bytes, an odd one two blobs of 1 and 2 bytes, and no
\* two blobs share a byte value
BlobsOf(c) ==
    [j \in 1..(1 + (c % 2)) |->
        [k \in 1..(IF c % 2 = 0 THEN 5 ELSE j) |-> 10 * (c + 1) + 3 * j + k]]

Cluster(c, type, bad) == [type |-> type, blobs |-> BlobsOf(c), bad |-> bad]

\* mimetype_list of the model's archives
mimetype_list == <<"text/html">>

VARIABLES
    \* ---- the archive a lookup runs on, and the lookup's arguments
    directory,      \* the directory entries, in URL pointer table order
    beyond,         \* what a read of pointer slot articleCount produces
    namespace,      \* argument of get_article_by_url
    url,            \* argument of get_article_by_url
    \* ---- locals of _get_entry_by_url and get_article_by_url
    lpc,            \* position: "call", "loop", "return", "dispatch", "done", "raised"
    front,
    end,
    middle,
    found,
    probes,         \* the indices passed to read_directory_entry_by_index, in order
    entry,          \* the entry _get_entry_by_url returns, or None
    idx,            \* the index _get_entry_by_url returns, or None
    article,        \* what get_article_by_url returns
    status,         \* the HTTP status on_get answers with, 0 before it answers
    \* ---- the archive file and the cache of decoded clusters
    clusters,       \* what the archive's clusters were built from
    file,           \* the bytes of the archive file
    filePos,        \* the position of the archive's file handle
    cache,          \* the lru_cache of ClusterData objects, least recent first
    \* ---- _get_article_by_index, _read_blob and ClusterData.__init__
    follow_redirect,
    readsLeft,      \* the calls still to be made
    apc,            \* position: "idle", "resolve", "read_blob", "init",
                    \* "lzma", "zstd", "read_offsets", "blob"
    start,          \* the index the caller passed to _get_article_by_index
    index,          \* argument of the running (innermost) _get_article_by_index
    depth,          \* how many redirects the running call has followed
    cur,            \* the article entry being fetched
    cd,             \* the ClusterData being constructed or used
    result,         \* what the last call returned or raised
    calls,          \* the finished calls, in order
    \* ---- the registries of ZIMRequestHandler and the requests in flight
    zim_files,      \* ZIMRequestHandler.zim_files: name -> ZIMFile, or None
    index_files,    \* ZIMRequestHandler.index_files: name -> connection, or None
    opened,         \* name -> how many ZIMFile objects _load_zim_file made
    bootstrapped,   \* name -> how many times _bootstrap_index was called
    fpos,           \* ZIMFile -> the position of its file handle
    req,            \* request -> the locals of the on_get that handles it
    \* ---- ZIMFile.__init__ on the bytes of a file
    opc,            \* position: "idle", "header", "mime_seek", "read", "field",
                    \* "register", "done", "raised"
    header_fields,  \* the unpacked header, None before it is read
    mimetypes,      \* the list MimeTypeListBlock.unpack_from_file collects
    field,          \* the bytes read_zero_terminated has read so far
    eofReads,       \* how many of its reads returned no byte
    \* ---- the title index files and the process that builds them
    index_disk,     \* name -> the index file on disk: whether it exists, can
                    \* be written, holds the table, and its committed records
    pending,        \* the records inserted by a build that has not committed
    built,          \* name -> how many builds have committed, over all runs
    restarts,       \* how often the server process was killed and restarted
    \* ---- BM25.calculate_scores
    query,          \* argument: the query terms
    corpus,         \* argument: the candidate documents
    bpc,            \* position: "idle", "call", "score", "done"
    query_terms,    \* the (term, frequency) pairs
    scores,         \* what calculate_scores returns or raises
    \* ---- the routing of a request path in on_get
    location,       \* request.relative_uri
    route,          \* the lookup on_get derives from it, None before
    \* ---- the search branch of on_get
    results,        \* the docids the title index returned for the query
    entries,        \* the directory entries listed, in order
    redirects,      \* the hits set aside as redirects
    spc             \* position: "idle", "hits", "chain", "done"

lookupVars == <<directory, beyond, namespace, url, lpc, front, end, middle,
                found, probes, entry, idx, article, status>>

articleVars == <<clusters, file, filePos, cache, follow_redirect, readsLeft, apc,
                 start, index, depth, cur, cd, result, calls>>

serverVars == <<zim_files, index_files, opened, bootstrapped, fpos, req>>

openVars == <<opc, header_fields, mimetypes, field, eofReads>>

indexVars == <<index_disk, pending, built, restarts>>

bm25Vars == <<query, corpus, bpc, query_terms, scores>>

routeVars == <<location, route>>

searchVars == <<results, entries, redirects, spc>>

vars == <<lookupVars, articleVars, serverVars, openVars, indexVars, bm25Vars,
          routeVars, searchVars>>

\* len(self): header_fields['articleCount']
articleCount == Len(directory)

\* read_directory_entry_by_index(index) on archive (d, b): None for the index
\* 0xffffffff, else the entry the pointer slot leads to, with the index attached
read_directory_entry_by_index(d, b, i) ==
    IF i = NO_INDEX THEN None
    ELSE IF i \in 0..(Len(d) - 1) THEN [d[i + 1] EXCEPT !.index = i]
    ELSE IF b.tag = "raise" THEN b
    ELSE [b EXCEPT !.index = i]

(***************************************************************************)
(* ZIMFile._get_entry_by_url (binary search), get_article_by_url and the   *)
(* status on_get derives from the result.                                  *)
(***************************************************************************)
\* the comparison branch of the search loop: the new <<front, end>>
Narrow_swapped(found_title, title, f, e, m) ==
    IF StrLess(found_title, title) THEN <<f, m - 1>> ELSE <<m + 1, e>>

Narrow(found_title, title, f, e, m) ==
    IF StrLess(found_title, title) THEN <<m + 1, e>> ELSE <<f, m - 1>>

\* front = middle = 0; end = len(self); found = False
get_entry_by_url_Start ==
    /\ lpc = "call"
    /\ front' = 0
    /\ middle' = 0
    /\ end' = articleCount
    /\ found' = FALSE
    /\ lpc' = "loop"
    /\ UNCHANGED <<directory, beyond, namespace, url, probes, entry, idx,
                   article, status>>
    /\ UNCHANGED <<articleVars, serverVars, openVars, indexVars, bm25Vars,
                   routeVars,
                   searchVars>>

\* one iteration of  while front <= end and not found
get_entry_by_url_Probe ==
    /\ lpc = "loop"
    /\ front <= end /\ ~found
    /\ LET m == (front + end) \div 2
           e == read_directory_entry_by_index(directory, beyond, m)
       IN  /\ middle' = m
           /\ probes' = Append(probes, m)
           /\ IF e.tag # "entry"
                THEN \* the read raised, or entry['url'] on None raises
                     /\ lpc' = "raised"
                     /\ article' = IF e.tag = "raise" THEN e ELSE Raised("TypeError")
                     /\ UNCHANGED <<front, end, found>>
                ELSE /\ lpc' = "loop"
                     /\ article' = article
                     /\ IF full_url(e.namespace, e.url) = full_url(namespace, url)
                          THEN found' = TRUE /\ UNCHANGED <<front, end>>
                          ELSE /\ found' = FALSE
                               /\ LET nb == Narrow(full_url(e.namespace, e.url),
                                                   full_url(namespace, url),
                                                   front, end, m)
                                  IN  front' = nb[1] /\ end' = nb[2]
    /\ UNCHANGED <<directory, beyond, namespace, url, entry, idx, status>>
    /\ UNCHANGED <<articleVars, serverVars, openVars, indexVars, bm25Vars,
                   routeVars,
                   searchVars>>

\* the loop has ended: return (entry, middle) or (None, None)
get_entry_by_url_Return ==
    /\ lpc = "loop"
    /\ ~(front <= end /\ ~found)
    /\ IF found
         THEN /\ entry' = read_directory_entry_by_index(directory, beyond, middle)
              /\ idx' = PyInt(middle)
         ELSE /\ entry' = None
              /\ idx' = None
    /\ lpc' = "dispatch"
    /\ UNCHANGED <<directory, beyond, namespace, url, front, end, middle, found,
                   probes, article, status>>
    /\ UNCHANGED <<articleVars, serverVars, openVars, indexVars, bm25Vars,
                   routeVars,
                   searchVars>>

\* Python's truth value of idx in  if idx:
Truthy(v) == v.tag = "int" /\ v.val # 0

\* get_article_by_url:  if idx: return self._get_article_by_index(idx)
get_article_by_url_Dispatch ==
    /\ lpc = "dispatch"
    /\ article' = IF Truthy(idx) THEN ArticleByIndex(idx.val) ELSE None
    /\ lpc' = "done"
    /\ UNCHANGED <<directory, beyond, namespace, url, front, end, middle, found,
                   probes, entry, idx, status>>
    /\ UNCHANGED <<articleVars, serverVars, openVars, indexVars, bm25Vars,
                   routeVars,
                   searchVars>>

\* on_get: success = True if article else False; 200 or 404.  An exception
\* that leaves on_get is answered by the framework with 500.
on_get_Status ==
    /\ lpc \in {"done", "raised"}
    /\ status = 0
    /\ status' = IF lpc = "raised" THEN 500
                  ELSE IF article = None THEN 404 ELSE 200
    /\ UNCHANGED <<directory, beyond, namespace, url, lpc, front, end, middle,
                   found, probes, entry, idx, article>>
    /\ UNCHANGED <<articleVars, serverVars, openVars, indexVars, bm25Vars,
                   routeVars,
                   searchVars>>

\* a ClusterData object: its offset, its compression ("lzma", "zstd", or "none"
\* for False), its decompressed buffer, the decompressor's end-of-stream flag
\* and its blob offsets
ClusterData(offset) ==
    [offset |-> offset, compression |-> "none", buffer |-> <<>>, eof |-> FALSE,
     offsets |-> <<>>]

\* no score is computed and no path is routed in this state
IdleBM25 ==
    /\ query = <<>> /\ corpus = <<>> /\ bpc = "idle"
    /\ query_terms = <<>> /\ scores = None

IdleRoute == location = <<>> /\ route = None

\* no search is made in this state
IdleSearch ==
    /\ results = <<>> /\ entries = <<>> /\ redirects = <<>> /\ spc = "idle"

\* no index file is looked at in this state
IdleIndex ==
    /\ index_disk = <<>> /\ pending = <<>> /\ built = <<>> /\ restarts = 0

\* no file is being opened in this state
IdleOpen ==
    /\ opc = "idle" /\ header_fields = None /\ mimetypes = <<>>
    /\ field = <<>> /\ eofReads = 0

\* no server runs in this state
IdleServer ==
    /\ zim_files = <<>> /\ index_files = <<>>
    /\ opened = <<>> /\ bootstrapped = <<>>
    /\ fpos = <<>> /\ req = <<>>

\* no article request is made in this state
IdleArticle ==
    /\ clusters = <<>> /\ file = <<>> /\ filePos = 0 /\ cache = <<>>
    /\ follow_redirect = TRUE /\ readsLeft = 0 /\ apc = "idle"
    /\ start = 0 /\ index = 0 /\ depth = 0
    /\ cur = None /\ cd = ClusterData(0) /\ result = None /\ calls = <<>>

InitLookup ==
    /\ IdleArticle
    /\ IdleServer
    /\ IdleOpen
    /\ IdleIndex
    /\ IdleBM25 /\ IdleRoute /\ IdleSearch
    /\ directory \in LookupDirectories
    /\ beyond \in BeyondTable
    /\ namespace \in Namespaces
    /\ url \in Urls
    /\ lpc = "call"
    /\ front = 0 /\ end = 0 /\ middle = 0 /\ found = FALSE
    /\ probes = <<>>
    /\ entry = None /\ idx = None /\ article = None
    /\ status = 0

NextLookup ==
    \/ get_entry_by_url_Start
    \/ get_entry_by_url_Probe
    \/ get_entry_by_url_Return
    \/ get_article_by_url_Dispatch
    \/ on_get_Status

SpecLookup == InitLookup /\ [][NextLookup]_vars

\* the indices at which the directory holds the key (namespace, url)
IndicesOf(ns, u) ==
    {i \in 0..(articleCount - 1) :
        directory[i + 1].namespace = ns /\ directory[i + 1].url = u}

Returned == lpc \in {"dispatch", "done"}

\* C1: in an archive whose URL pointer table is strictly sorted, every entry
\* index i reads as an entry, and for a non-redirect entry i the binary search
\* for that entry's (namespace, url) does not fail and returns that entry
\* together with the index i.
C1_LookupRoundTrip ==
    \A i \in 0..(articleCount - 1) :
        LET e == read_directory_entry_by_index(directory, beyond, i)
        IN  /\ e.tag = "entry" /\ e.index = i
            /\ (~IsRedirect(e) /\ e.namespace = namespace /\ e.url = url) =>
                   /\ lpc # "raised"
                   /\ Returned => (entry = e /\ idx = PyInt(i))

\* a lookup of the key of a non-redirect entry has returned
C1_Witness ==
    /\ Returned
    /\ \E i \in IndicesOf(namespace, url) : i > 0 /\ ~IsRedirect(directory[i + 1])
    /\ articleCount = MaxArticles

\* C2: whenever the URL resolver finds the key at an index i (i = 0
\* included), get_article_by_url returns what _get_article_by_index(i)
\* returns, and it returns nothing only when the resolver found no entry.
C2_Composition ==
    lpc = "done" =>
        \A i \in 0..(articleCount - 1) :
            idx = PyInt(i) => article = ArticleByIndex(i) /\ article # None

\* C6 (lookup part): a key that matches no directory entry is reported as
\* not found and answered 404, whatever its position among the keys and also
\* in an archive without entries; the request ends in no other error.
C6_MissingIs404 ==
    IndicesOf(namespace, url) = {} =>
        /\ lpc # "raised"
        /\ Returned => idx = None
        /\ status \in {0, 404}

\* C18: every index the binary search passes to read_directory_entry_by_index
\* lies in [0, articleCount), whether the key is present or absent.
C18_ProbesInRange ==
    \A k \in 1..Len(probes) : probes[k] >= 0 /\ probes[k] < articleCount

(***************************************************************************)
(* ZIMFile._get_article_by_index, ZIMFile._read_blob and ClusterData.      *)
(***************************************************************************)
Article(data, ns, mimetype) ==
    [tag |-> "Article", data |-> data, namespace |-> ns, mimetype |-> mimetype]

\* _read_cluster_offset(cluster_index): the cluster pointer table's slot
read_cluster_offset(c) == ClusterPtrOf(clusters)[c + 1]

Remove(q, k) == SubSeq(q, 1, k - 1) \o SubSeq(q, k + 1, Len(q))

InCache(q, offset) == \E k \in 1..Len(q) : q[k].offset = offset

CachePos(q, offset) == CHOOSE k \in 1..Len(q) : q[k].offset = offset

\* lru_cache, a hit: the entry found becomes the most recently used one
LruTouch_norefresh(q, k) == q

LruTouch(q, k) == Append(Remove(q, k), q[k])

\* lru_cache, a miss whose call returned: the result is stored as the most
\* recently used entry, in place of the least recently used one when full
LruStore_evictnewest(q, obj) ==
    IF Len(q) >= maxsize THEN Append(SubSeq(q, 1, Len(q) - 1), obj) ELSE Append(q, obj)

LruStore(q, obj) ==
    IF Len(q) >= maxsize THEN Append(Tail(q), obj) ELSE Append(q, obj)

\* the first symbol of a chunk that is no compressed data, 0 if there is none
StopAt(chunk) ==
    IF \A i \in 1..Len(chunk) : IsZData(chunk[i]) THEN 0
    ELSE CHOOSE i \in 1..Len(chunk) :
             ~IsZData(chunk[i]) /\ \A j \in 1..(i - 1) : IsZData(chunk[j])

\* decompressor.decompress(chunk) before the end of the stream: the data the
\* chunk yields, whether the chunk ends the stream, or an error for a chunk
\* that is no valid continuation of the stream.  An empty chunk yields no
\* data and no error.
Decompress(chunk) ==
    LET k == StopAt(chunk)
    IN  IF k = 0
        THEN [status |-> "more", data |-> [i \in 1..Len(chunk) |-> chunk[i] - Z_BASE]]
        ELSE IF chunk[k] = Z_EOS
        THEN [status |-> "eof", data |-> [i \in 1..(k - 1) |-> chunk[i] - Z_BASE]]
        ELSE [status |-> "error", data |-> <<>>]

\* _source_buffer: the decompressed buffer at 0, or the file at offset + 1
SourceOf(c) == IF c.compression # "none" THEN c.buffer ELSE file
SourceStart(c) == IF c.compression # "none" THEN 0 ELSE c.offset + 1

\* _read_offsets: offset0, then int(offset0 / 4) - 1 further offsets; every
\* unpack of a read shorter than 4 bytes raises struct.error
ReadOffsets(c) ==
    LET src == SourceOf(c)
        st == SourceStart(c)
        first == ReadAt(src, st, 4)
    IN  IF Len(first) < 4 THEN Raised("struct.error")
        ELSE LET n == UnpackU32(first) \div 4
                 count == IF n < 1 THEN 1 ELSE n
                 raw == [i \in 1..count |-> ReadAt(src, st + 4 * (i - 1), 4)]
             IN  IF \E i \in 1..count : Len(raw[i]) < 4
                 THEN Raised("struct.error")
                 ELSE [tag |-> "offsets",
                       offsets |-> [i \in 1..count |-> UnpackU32(raw[i])]]

\* the size read_blob computes for a blob
BlobSize_fromzero(c, b) == c.offsets[b + 2]

BlobSize(c, b) == c.offsets[b + 2] - c.offsets[b + 1]

\* read_blob(blob_index): IOError beyond the last blob, else blob_size bytes
\* from the position offsets[blob_index] after the source's start
ReadBlob(c, b) ==
    IF b >= Len(c.offsets) - 1 THEN Raised("IOError")
    ELSE [tag |-> "bytes",
          data |-> ReadAt(SourceOf(c), SourceStart(c) + c.offsets[b + 1],
                          BlobSize(c, b))]

\* the running call returns r (or raises it) to its caller
Finish(r, constructed) ==
    /\ result' = r
    /\ calls' = Append(calls, [start |-> start, hops |-> depth, entry |-> cur,
                                constructed |-> constructed, result |-> r])
    /\ apc' = "idle"

\* a caller (get_main_page, get_article_by_url, metadata) calls
\* _get_article_by_index(i, follow_redirect)
get_article_by_index_Call ==
    /\ apc = "idle"
    /\ readsLeft > 0
    /\ \E i \in 0..(Len(directory) - 1) :
           /\ start' = i
           /\ index' = i
    /\ depth' = 0
    /\ cur' = None
    /\ cd' = ClusterData(0)
    /\ readsLeft' = readsLeft - 1
    /\ apc' = "resolve"
    /\ UNCHANGED <<clusters, file, filePos, cache, follow_redirect, result, calls>>
    /\ UNCHANGED <<lookupVars, serverVars, openVars, indexVars, bm25Vars,
                   routeVars,
                   searchVars>>

\* the body of _get_article_by_index up to the recursive call or _read_blob
get_article_by_index_Entry ==
    /\ apc = "resolve"
    /\ LET e == read_directory_entry_by_index(directory, beyond, index)
       IN  IF e.tag # "entry"
           THEN \* entry is None: return None; or the read raised
                /\ Finish(e, FALSE)
                /\ UNCHANGED <<index, depth, cur>>
           ELSE IF IsRedirect(e)
           THEN IF ~follow_redirect
                THEN /\ Finish(Article(None, e.namespace, e.redirectIndex), FALSE)
                     /\ UNCHANGED <<index, depth, cur>>
                ELSE IF depth + 1 >= RecursionLimit
                THEN /\ Finish(Raised("RecursionError"), FALSE)
                     /\ UNCHANGED <<index, depth, cur>>
                ELSE /\ index' = e.redirectIndex
                     /\ depth' = depth + 1
                     /\ UNCHANGED <<apc, cur, result, calls>>
           ELSE /\ cur' = e
                /\ apc' = "read_blob"
                /\ UNCHANGED <<index, depth, result, calls>>
    /\ UNCHANGED <<clusters, file, filePos, cache, follow_redirect, readsLeft,
                   start, cd>>
    /\ UNCHANGED <<lookupVars, serverVars, openVars, indexVars, bm25Vars,
                   routeVars,
                   searchVars>>

\* _read_blob: the cluster's offset, then ClusterData(file, offset, enc)
\* through the lru_cache
read_blob_ClusterData ==
    /\ apc = "read_blob"
    /\ LET offset == read_cluster_offset(cur.clusterNumber)
       IN  IF InCache(cache, offset)
           THEN /\ cd' = cache[CachePos(cache, offset)]
                /\ cache' = LruTouch(cache, CachePos(cache, offset))
                /\ apc' = "blob"
           ELSE /\ cd' = ClusterData(offset)
                /\ cache' = cache
                /\ apc' = "init"
    /\ UNCHANGED <<clusters, file, filePos, follow_redirect, readsLeft, start,
                   index, depth, cur, result, calls>>
    /\ UNCHANGED <<lookupVars, serverVars, openVars, indexVars, bm25Vars,
                   routeVars,
                   searchVars>>

\* ClusterData.__init__ up to the decompression loop: the compression type
\* byte decides the compression;  {4: "lzma", 5: "zstd"}.get(type, False)
ClusterData_init ==
    /\ apc = "init"
    /\ LET info == ReadAt(file, cd.offset, 1)
       IN  IF Len(info) < 1
           THEN /\ Finish(Raised("struct.error"), FALSE)
                /\ filePos' = Len(file)
                /\ cd' = cd
           ELSE LET compression == IF info[1] = 4 THEN "lzma"
                                   ELSE IF info[1] = 5 THEN "zstd" ELSE "none"
                IN  /\ cd' = [cd EXCEPT !.compression = compression]
                    /\ filePos' = cd.offset + 1
                    /\ apc' = IF compression = "none" THEN "read_offsets"
                                                      ELSE compression
                    /\ UNCHANGED <<result, calls>>
    /\ UNCHANGED <<clusters, file, cache, follow_redirect, readsLeft, start,
                   index, depth, cur>>
    /\ UNCHANGED <<lookupVars, serverVars, openVars, indexVars, bm25Vars,
                   routeVars,
                   searchVars>>

\* one iteration of  while not decompressor.eof  (LZMA)
decompress_lzma ==
    /\ apc = "lzma"
    /\ LET chunk == ReadAt(file, filePos, chunk_size)
           out == Decompress(chunk)
       IN  /\ filePos' = filePos + Len(chunk)
           /\ IF out.status = "error"
              THEN /\ Finish(Raised("LZMAError"), FALSE)
                   /\ cd' = cd
              ELSE /\ cd' = [cd EXCEPT !.buffer = cd.buffer \o out.data,
                                        !.eof = (out.status = "eof")]
                   /\ apc' = IF out.status = "eof" THEN "read_offsets" ELSE "lzma"
                   /\ UNCHANGED <<result, calls>>
    /\ UNCHANGED <<clusters, file, cache, follow_redirect, readsLeft, start,
                   index, depth, cur>>
    /\ UNCHANGED <<lookupVars, serverVars, openVars, indexVars, bm25Vars,
                   routeVars,
                   searchVars>>

\* one iteration of  while True  (Zstandard): a ZstdError, which a finished
\* decompressor raises on its next use as well, ends the loop
decompress_zstd ==
    /\ apc = "zstd"
    /\ LET chunk == ReadAt(file, filePos, chunk_size)
           out == Decompress(chunk)
       IN  /\ filePos' = filePos + Len(chunk)
           /\ IF cd.eof \/ out.status = "error"
              THEN /\ cd' = cd
                   /\ apc' = "read_offsets"
              ELSE /\ cd' = [cd EXCEPT !.buffer = cd.buffer \o out.data,
                                        !.eof = (out.status = "eof")]
                   /\ apc' = "zstd"
    /\ UNCHANGED <<clusters, file, cache, follow_redirect, readsLeft, start,
                   index, depth, cur, result, calls>>
    /\ UNCHANGED <<lookupVars, serverVars, openVars, indexVars, bm25Vars,
                   routeVars,
                   searchVars>>

\* the end of ClusterData.__init__: _read_offsets; the object the call
\* returns is stored by the lru_cache
ClusterData_read_offsets ==
    /\ apc = "read_offsets"
    /\ LET r == ReadOffsets(cd)
       IN  /\ filePos' = IF cd.compression # "none" THEN filePos
                          ELSE IF r.tag = "raise" THEN Len(file)
                          ELSE SourceStart(cd) + 4 * Len(r.offsets)
           /\ IF r.tag = "raise"
              THEN /\ Finish(r, FALSE)
                   /\ UNCHANGED <<cd, cache>>
              ELSE /\ cd' = [cd EXCEPT !.offsets = r.offsets]
                   /\ cache' = LruStore(cache, [cd EXCEPT !.offsets = r.offsets])
                   /\ apc' = "blob"
                   /\ UNCHANGED <<result, calls>>
    /\ UNCHANGED <<clusters, file, follow_redirect, readsLeft, start, index,
                   depth, cur>>
    /\ UNCHANGED <<lookupVars, serverVars, openVars, indexVars, bm25Vars,
                   routeVars,
                   searchVars>>

\* cluster_data.read_blob(blob_index), and the Article that
\* _get_article_by_index builds from it
read_blob_Article ==
    /\ apc = "blob"
    /\ LET r == ReadBlob(cd, cur.blobNumber)
       IN  /\ filePos' = IF cd.compression # "none" \/ r.tag = "raise" THEN filePos
                          ELSE SourceStart(cd) + cd.offsets[cur.blobNumber + 1]
                                   + Len(r.data)
           /\ IF r.tag = "raise"
              THEN Finish(r, TRUE)
              ELSE Finish(Article(r.data, cur.namespace,
                                  mimetype_list[cur.mimetype + 1]), TRUE)
    /\ UNCHANGED <<clusters, file, cache, follow_redirect, readsLeft, start,
                   index, depth, cur, cd>>
    /\ UNCHANGED <<lookupVars, serverVars, openVars, indexVars, bm25Vars,
                   routeVars,
                   searchVars>>

NextArticle ==
    \/ get_article_by_index_Call
    \/ get_article_by_index_Entry
    \/ read_blob_ClusterData
    \/ ClusterData_init
    \/ decompress_lzma
    \/ decompress_zstd
    \/ ClusterData_read_offsets
    \/ read_blob_Article

\* no lookup runs in this state
IdleLookup ==
    /\ namespace = NS_A /\ url = URL_B
    /\ lpc = "idle"
    /\ front = 0 /\ end = 0 /\ middle = 0 /\ found = FALSE
    /\ probes = <<>>
    /\ entry = None /\ idx = None /\ article = None
    /\ status = 0

InitArticleCommon ==
    /\ IdleLookup
    /\ IdleServer
    /\ IdleOpen
    /\ IdleIndex
    /\ IdleBM25 /\ IdleRoute /\ IdleSearch
    /\ beyond = Raised("struct.error")
    /\ file = FileOf(clusters)
    /\ filePos = 0
    /\ cache = <<>>
    /\ apc = "idle"
    /\ start = 0 /\ index = 0 /\ depth = 0
    /\ cur = None /\ cd = ClusterData(0) /\ result = None /\ calls = <<>>

(***************************************************************************)
(* The archives the article resolver is run on.                            *)
(***************************************************************************)
\* where a compressed stream is damaged: nowhere, in its first chunk, behind
\* the blob-offset table, in its last data symbol
BadAt == {0, 2, 10, 13}

\* cluster 0 of any type, intact or damaged; cluster 1 of any type, intact
ClusterArchives ==
    {<<Cluster(0, t0, b0), Cluster(1, t1, 0)>> :
        t0 \in {1, 4, 5}, b0 \in BadAt, t1 \in {1, 4, 5}}

ClusterDirectory ==
    <<ArticleEntry(NS_A, URL_B, 0, 0), ArticleEntry(NS_A, URL_BB, 1, 0),
      ArticleEntry(NS_A, URL_C, 1, 1)>>

InitCluster ==
    /\ clusters \in ClusterArchives
    /\ directory = ClusterDirectory
    /\ follow_redirect = TRUE
    /\ readsLeft = MaxReads
    /\ InitArticleCommon

SpecCluster == InitCluster /\ [][NextArticle]_vars

\* three entries, each an article or a redirect to any of the three
RedirectDirectories ==
    {<<e1, e2, e3>> :
        e1 \in {ArticleEntry(NS_A, URL_B, 0, 0)}
                  \cup {RedirectEntry(NS_A, URL_B, t) : t \in 0..2},
        e2 \in {ArticleEntry(NS_A, URL_BB, 1, 1)}
                  \cup {RedirectEntry(NS_A, URL_BB, t) : t \in 0..2},
        e3 \in {ArticleEntry(NS_A, URL_C, 1, 0)}
                  \cup {RedirectEntry(NS_A, URL_C, t) : t \in 0..2}}

InitRedirect ==
    /\ clusters = <<Cluster(0, 4, 0), Cluster(1, 5, 0)>>
    /\ directory \in RedirectDirectories
    /\ follow_redirect \in BOOLEAN
    /\ readsLeft = 1
    /\ InitArticleCommon

SpecRedirect == InitRedirect /\ [][NextArticle]_vars

\* maxsize + 2 clusters: uncompressed, LZMA and Zstandard ones in turn, and a
\* last one whose Zstandard stream is damaged in its first chunk
CacheClusters ==
    [c \in 1..(maxsize + 2) |->
        IF c = maxsize + 2 THEN Cluster(c - 1, 5, 2)
        ELSE Cluster(c - 1, IF c % 3 = 1 THEN 1 ELSE IF c % 3 = 2 THEN 4 ELSE 5, 0)]

\* one article per cluster, its blob 0
CacheDirectory ==
    [c \in 1..(maxsize + 2) |-> ArticleEntry(NS_A, <<65 + c>>, c - 1, 0)]

InitCache ==
    /\ clusters = CacheClusters
    /\ directory = CacheDirectory
    /\ follow_redirect = TRUE
    /\ readsLeft = maxsize + CacheExtraReads
    /\ InitArticleCommon

SpecCache == InitCache /\ [][NextArticle]_vars

\* the cluster an entry names, as it was built
ClusterOf(e) == clusters[e.clusterNumber + 1]

\* the bytes [offset[b], offset[b + 1]) of the payload a cluster was built from
PayloadSlice(cl, b) ==
    SubSeq(Payload(cl.blobs), BlobOffsets(cl.blobs)[b + 1] + 1,
           BlobOffsets(cl.blobs)[b + 2])

\* call k ended in _read_blob on an article entry
IsBlobCall(k) == calls[k].entry # None

\* C3: with follow_redirect, a redirect chase never goes deeper than the depth
\* cap, and a finished call has returned an article (never a redirect variant)
\* or has failed with the redirect-loop error.
C3_BoundedChase ==
    follow_redirect =>
        /\ depth <= DepthCap
        /\ \A k \in 1..Len(calls) :
               \/ calls[k].result.tag = "Article" /\ calls[k].hops <= DepthCap
               \/ calls[k].result = Raised("RedirectLoop")

\* C4: a call for an article entry (c, b) of an intact cluster, uncompressed
\* or compressed, decoded by this call or taken from the cache, returns as
\* data exactly the payload bytes [offset[b], offset[b + 1]) of cluster c.
C4_BlobExtraction ==
    \A k \in 1..Len(calls) :
        (IsBlobCall(k) /\ ClusterOf(calls[k].entry).bad = 0) =>
            LET e == calls[k].entry
                want == PayloadSlice(ClusterOf(e), e.blobNumber)
            IN  /\ calls[k].result.tag = "Article"
                /\ calls[k].result.data = want
                /\ Len(calls[k].result.data)
                     = BlobOffsets(ClusterOf(e).blobs)[e.blobNumber + 2]
                         - BlobOffsets(ClusterOf(e).blobs)[e.blobNumber + 1]

\* two calls in a row have fetched the same non-empty blob of a compressed
\* cluster, the second one from the cache
C4_Witness ==
    /\ Len(calls) = 2
    /\ calls[1].entry = calls[2].entry
    /\ IsBlobCall(2)
    /\ ClusterOf(calls[2].entry).type = 5
    /\ calls[2].entry.blobNumber = 1
    /\ calls[2].result.tag = "Article"
    /\ Len(calls[2].result.data) = 2

\* C10: a call for a blob of a Zstandard cluster whose stream is invalid
\* fails with an error and returns no data, and a later call for a blob of
\* another, intact cluster returns that blob.
C10_CorruptZstdFails ==
    \A k \in 1..Len(calls) :
        IsBlobCall(k) =>
            LET cl == ClusterOf(calls[k].entry)
            IN  /\ (cl.type = 5 /\ cl.bad > 0) => calls[k].result.tag = "raise"
                /\ (cl.bad = 0 /\ k > 1) =>
                       /\ calls[k].result.tag = "Article"
                       /\ calls[k].result.data
                            = PayloadSlice(cl, calls[k].entry.blobNumber)

\* the cluster offsets whose ClusterData the finished calls obtained (decoded
\* or found in the cache), in call order
RECURSIVE Accessed(_)
Accessed(k) ==
    IF k = 0 THEN <<>>
    ELSE IF calls[k].constructed
         THEN Append(Accessed(k - 1), read_cluster_offset(calls[k].entry.clusterNumber))
         ELSE Accessed(k - 1)

RECURSIVE Without(_, _)
Without(q, x) ==
    IF q = <<>> THEN <<>>
    ELSE IF Head(q) = x THEN Without(Tail(q), x)
    ELSE <<Head(q)>> \o Without(Tail(q), x)

\* the distinct elements of a log, ordered by their last occurrence
RECURSIVE ByRecency(_)
ByRecency(log) ==
    IF log = <<>> THEN <<>>
    ELSE LET x == log[Len(log)]
         IN  Append(Without(ByRecency(SubSeq(log, 1, Len(log) - 1)), x), x)

LastOf(q, n) == SubSeq(q, Len(q) - MinOf(n, Len(q)) + 1, Len(q))

CacheKeys == [k \in 1..Len(cache) |-> cache[k].offset]

\* C5: the cache never holds more than maxsize clusters; between calls it
\* holds the most recently accessed clusters, ordered by their last access (a
\* hit counts as an access), and exactly maxsize of them once more than
\* maxsize distinct clusters have been read.
C5_LruCache ==
    /\ Len(cache) <= maxsize
    /\ apc = "idle" =>
          LET recent == ByRecency(Accessed(Len(calls)))
          IN  /\ CacheKeys = LastOf(recent, maxsize)
              /\ Len(recent) > maxsize => Len(cache) = maxsize

\* more than maxsize distinct clusters have been read; a hit has made the
\* cluster read first outlive one read after it
C5_Witness ==
    /\ apc = "idle"
    /\ Len(ByRecency(Accessed(Len(calls)))) > maxsize
    /\ Len(calls) > maxsize + 1
    /\ \A k \in 1..Len(calls) : calls[k].constructed
    /\ InCache(cache, read_cluster_offset(calls[1].entry.clusterNumber))
    /\ ~InCache(cache, read_cluster_offset(calls[2].entry.clusterNumber))
    /\ calls[Len(calls)].entry # calls[1].entry

(***************************************************************************)
(* Clusters whose compression type byte is none of 1, 4 and 5.             *)
(***************************************************************************)
\* compression types the resolver has no decoder for (2 is zlib and 3 is
\* bzip2 in the ZIM format, 0 and 6 are further values of the byte)
OtherCompressionTypes == {0, 2, 3, 6}

\* cluster 0 carries such a type byte, cluster 1 is an intact compressed one
CompressionArchives ==
    {<<Cluster(0, t, 0), Cluster(1, t1, 0)>> :
        t \in OtherCompressionTypes, t1 \in {4, 5}}

InitCompression ==
    /\ clusters \in CompressionArchives
    /\ directory = ClusterDirectory
    /\ follow_redirect = TRUE
    /\ readsLeft = MaxReads
    /\ InitArticleCommon

SpecCompression == InitCompression /\ [][NextArticle]_vars

\* C11: a call that decodes a cluster whose compression type byte is none of
\* 1, 4 and 5 fails with the unsupported-compression error; it returns no
\* article made from the cluster's bytes.
C11_UnsupportedCompression ==
    \A k \in 1..Len(calls) :
        (IsBlobCall(k) /\ ClusterOf(calls[k].entry).type \notin {1, 4, 5}) =>
            calls[k].result = Raised("UnsupportedCompression")

(***************************************************************************)
(* Archives that end inside the compressed stream of their last cluster.   *)
(***************************************************************************)
\* how many bytes the file lacks at its end: none; what follows the last
\* cluster and the end-of-stream marker; also part of the blobs; all but the
\* first symbols of the blob-offset table
CutAt == {0, 3, 5, 12}

\* cluster 0 is uncompressed, cluster 1 is an LZMA or a Zstandard cluster
TruncatedClusters == {<<Cluster(0, 1, 0), Cluster(1, t, 0)>> : t \in {4, 5}}

InitTruncated ==
    /\ IdleLookup /\ IdleServer /\ IdleOpen /\ IdleIndex
    /\ IdleBM25 /\ IdleRoute /\ IdleSearch
    /\ beyond = Raised("struct.error")
    /\ clusters \in TruncatedClusters
    /\ directory = ClusterDirectory
    /\ \E k \in CutAt : file = SubSeq(FileOf(clusters), 1, Len(FileOf(clusters)) - k)
    /\ follow_redirect = TRUE
    /\ readsLeft = MaxReads
    /\ filePos = 0
    /\ cache = <<>>
    /\ apc = "idle"
    /\ start = 0 /\ index = 0 /\ depth = 0
    /\ cur = None /\ cd = ClusterData(0) /\ result = None /\ calls = <<>>

\* every step the resolver can take is taken at some time
SpecTruncated == InitTruncated /\ [][NextArticle]_vars /\ WF_vars(NextArticle)

\* C19: whenever ClusterData._decompress is in its read loop, it leaves the
\* loop at some time, with the payload or with an error, also when the file
\* ends before the end-of-stream marker.
C19_DecompressTerminates ==
    (apc \in {"lzma", "zstd"}) ~> (apc \notin {"lzma", "zstd"})

(***************************************************************************)
(* ZIMRequestHandler under concurrent requests.  The registries zim_files  *)
(* and index_files are class attributes shared by all requests, and every  *)
(* ZIMFile has one file handle shared by all requests that read it.  The   *)
(* code takes no lock and the scheduling of handlers is the host's         *)
(* (OS threads or cooperative tasks), so a handler is modelled as the      *)
(* sequence of its accesses to shared state, and the accesses of different *)
(* requests interleave.  A request resolves its URL with one probe of the  *)
(* directory: a read of a URL pointer, then a read of the entry it points  *)
(* to.                                                                     *)
(***************************************************************************)
NumRequests == 2

Requests == 1..NumRequests

\* the archives _scan_zim_directory found
available_zims == {"a", "b"}

\* the first component of a request's path; "x" names no archive
ZimNames == available_zims \cup {"x"}

\* the archive file in cells: the URL pointer table, then the entries
PtrCell(to) == [tag |-> "ptr", to |-> to]

EntryCell(name, i) == [tag |-> "entry", name |-> name, index |-> i]

ServerFile(name) ==
    <<PtrCell(2), PtrCell(3), EntryCell(name, 0), EntryCell(name, 1)>>

\* header field urlPtrPos of the model's archives
urlPtrPos == 0

ServerIndices == {0, 1}

\* the ZIMFile objects the requests can create
ZIMFile(name, id) == [name |-> name, id |-> id]

ZIMFiles == {ZIMFile(n, k) : n \in available_zims, k \in Requests}

Request(zim_name, i) ==
    [pc |-> "check", zim_name |-> zim_name, index |-> i,
     active_zim |-> None, active_index |-> None,
     sought |-> 0, observed |-> -1, offset |-> 0, entry |-> None,
     status |-> 0]

InitServer ==
    /\ IdleLookup /\ IdleArticle /\ IdleOpen /\ IdleIndex
    /\ IdleBM25 /\ IdleRoute /\ IdleSearch
    /\ directory = <<>> /\ beyond = Raised("struct.error")
    /\ zim_files = [n \in ZimNames |-> None]
    /\ index_files = [n \in ZimNames |-> None]
    /\ opened = [n \in available_zims |-> 0]
    /\ bootstrapped = [n \in available_zims |-> 0]
    /\ fpos = [h \in ZIMFiles |-> 0]
    /\ req \in [Requests -> {Request(n, i) : n \in ZimNames, i \in ServerIndices}]

\* on_get: if zim_name in available_zims and zim_name not in zim_files
on_get_Check(r) ==
    /\ req[r].pc = "check"
    /\ req' = [req EXCEPT ![r].pc =
                 IF req[r].zim_name \in available_zims
                    /\ zim_files[req[r].zim_name] = None
                 THEN "open" ELSE "registry"]
    /\ UNCHANGED <<zim_files, index_files, opened, bootstrapped, fpos>>
    /\ UNCHANGED <<lookupVars, articleVars, openVars, indexVars, bm25Vars,
                   routeVars,
                   searchVars>>

\* _load_zim_file: zim_files[zim_name] = ZIMFile(path, encoding)
load_zim_file_Open(r) ==
    /\ req[r].pc = "open"
    /\ LET n == req[r].zim_name
           h == ZIMFile(n, opened[n] + 1)
       IN  /\ opened' = [opened EXCEPT ![n] = @ + 1]
           /\ fpos' = [fpos EXCEPT ![h] = urlPtrPos]
           /\ zim_files' = [zim_files EXCEPT ![n] = h]
    /\ req' = [req EXCEPT ![r].pc = "bootstrap"]
    /\ UNCHANGED <<index_files, bootstrapped>>
    /\ UNCHANGED <<lookupVars, articleVars, openVars, indexVars, bm25Vars,
                   routeVars,
                   searchVars>>

\* _load_zim_file: index_files[zim_name] = self._bootstrap_index(...), for an
\* index file that exists: the call connects to it
load_zim_file_Index(r) ==
    /\ req[r].pc = "bootstrap"
    /\ LET n == req[r].zim_name
       IN  /\ bootstrapped' = [bootstrapped EXCEPT ![n] = @ + 1]
           /\ index_files' = [index_files EXCEPT
                                ![n] = [name |-> n, id |-> bootstrapped[n] + 1]]
    /\ req' = [req EXCEPT ![r].pc = "registry"]
    /\ UNCHANGED <<zim_files, opened, fpos>>
    /\ UNCHANGED <<lookupVars, articleVars, openVars, indexVars, bm25Vars,
                   routeVars,
                   searchVars>>

\* on_get: 404 for a name not in zim_files, else active_zim and active_index
\* are taken from the registries (KeyError when the index is not stored yet)
on_get_Registry(r) ==
    /\ req[r].pc = "registry"
    /\ LET n == req[r].zim_name
       IN  req' = [req EXCEPT ![r] =
                IF zim_files[n] = None
                THEN [@ EXCEPT !.pc = "done", !.status = 404]
                ELSE IF index_files[n] = None
                THEN [@ EXCEPT !.pc = "done", !.status = 500,
                               !.active_zim = zim_files[n]]
                ELSE [@ EXCEPT !.pc = "ptr_seek",
                               !.active_zim = zim_files[n],
                               !.active_index = index_files[n]]]
    /\ UNCHANGED <<zim_files, index_files, opened, bootstrapped, fpos>>
    /\ UNCHANGED <<lookupVars, articleVars, openVars, indexVars, bm25Vars,
                   routeVars,
                   searchVars>>

\* the cell at the position of the handle, None at the end of the file
CellAt(h) ==
    IF fpos[h] < Len(ServerFile(h.name)) THEN ServerFile(h.name)[fpos[h] + 1]
    ELSE None

\* _read_offset: self.file.seek(header_fields[field_name] + length*index)
read_offset_Seek(r) ==
    /\ req[r].pc = "ptr_seek"
    /\ LET pos == urlPtrPos + req[r].index
       IN  /\ fpos' = [fpos EXCEPT ![req[r].active_zim] = pos]
           /\ req' = [req EXCEPT ![r].pc = "ptr_read", ![r].sought = pos,
                                 ![r].observed = -1]
    /\ UNCHANGED <<zim_files, index_files, opened, bootstrapped>>
    /\ UNCHANGED <<lookupVars, articleVars, openVars, indexVars, bm25Vars,
                   routeVars,
                   searchVars>>

\* _read_offset: unpack("<Q", self.file.read(length)); bytes that are no
\* pointer unpack to some number, a short read raises struct.error
read_offset_Read(r) ==
    /\ req[r].pc = "ptr_read"
    /\ LET h == req[r].active_zim
           cell == CellAt(h)
       IN  /\ fpos' = [fpos EXCEPT ![h] = MinOf(@ + 1, Len(ServerFile(h.name)))]
           /\ \/ /\ cell = None
                 /\ req' = [req EXCEPT ![r].pc = "done", ![r].status = 500,
                                       ![r].observed = fpos[h]]
              \/ /\ cell # None
                 /\ \E off \in 0..Len(ServerFile(h.name)) :
                      /\ cell.tag = "ptr" => off = cell.to
                      /\ req' = [req EXCEPT ![r].pc = "entry_seek",
                                            ![r].offset = off,
                                            ![r].observed = fpos[h]]
    /\ UNCHANGED <<zim_files, index_files, opened, bootstrapped>>
    /\ UNCHANGED <<lookupVars, articleVars, openVars, indexVars, bm25Vars,
                   routeVars,
                   searchVars>>

\* _read_directory_entry: self.file.seek(offset)
read_directory_entry_Seek(r) ==
    /\ req[r].pc = "entry_seek"
    /\ fpos' = [fpos EXCEPT ![req[r].active_zim] = req[r].offset]
    /\ req' = [req EXCEPT ![r].pc = "entry_read", ![r].sought = req[r].offset,
                          ![r].observed = -1]
    /\ UNCHANGED <<zim_files, index_files, opened, bootstrapped>>
    /\ UNCHANGED <<lookupVars, articleVars, openVars, indexVars, bm25Vars,
                   routeVars,
                   searchVars>>

\* _read_directory_entry: the reads that unpack the entry, and the answer of
\* on_get; bytes that are no entry unpack to an entry of any outcome
read_directory_entry_Read(r) ==
    /\ req[r].pc = "entry_read"
    /\ LET h == req[r].active_zim
           cell == CellAt(h)
       IN  /\ fpos' = [fpos EXCEPT ![h] = MinOf(@ + 1, Len(ServerFile(h.name)))]
           /\ \E st \in {200, 404, 500} :
                /\ cell = None => st = 500
                /\ (cell # None /\ cell.tag = "entry") => st = 200
                /\ req' = [req EXCEPT ![r].pc = "done", ![r].status = st,
                                      ![r].entry = cell, ![r].offset = 0,
                                      ![r].observed = fpos[h]]
    /\ UNCHANGED <<zim_files, index_files, opened, bootstrapped>>
    /\ UNCHANGED <<lookupVars, articleVars, openVars, indexVars, bm25Vars,
                   routeVars,
                   searchVars>>

\* the handlers up to the point where they hold their archive's handles
Next ==
    \E r \in Requests :
        \/ on_get_Check(r)
        \/ load_zim_file_Open(r)
        \/ load_zim_file_Index(r)
        \/ on_get_Registry(r)

Spec == InitServer /\ [][Next]_vars

\* both archives are loaded and every request holds its archive's handles
InitRead ==
    /\ IdleLookup /\ IdleArticle /\ IdleOpen /\ IdleIndex
    /\ IdleBM25 /\ IdleRoute /\ IdleSearch
    /\ directory = <<>> /\ beyond = Raised("struct.error")
    /\ zim_files = [n \in ZimNames |->
                      IF n \in available_zims THEN ZIMFile(n, 1) ELSE None]
    /\ index_files = [n \in ZimNames |->
                        IF n \in available_zims THEN [name |-> n, id |-> 1]
                        ELSE None]
    /\ opened = [n \in available_zims |-> 1]
    /\ bootstrapped = [n \in available_zims |-> 1]
    /\ fpos = [h \in ZIMFiles |-> urlPtrPos]
    /\ req \in [Requests ->
                  {[Request(n, i) EXCEPT !.pc = "ptr_seek",
                                         !.active_zim = zim_files[n],
                                         !.active_index = index_files[n]] :
                      n \in available_zims, i \in ServerIndices}]

\* the handlers from there on: the reads on the shared file handles
NextRead ==
    \E r \in Requests :
        \/ read_offset_Seek(r)
        \/ read_offset_Read(r)
        \/ read_directory_entry_Seek(r)
        \/ read_directory_entry_Read(r)

SpecRead == InitRead /\ [][NextRead]_vars

Loaded(n) == zim_files[n] # None /\ index_files[n] # None

MaxEofReads == 2

\* the ZIM magic number 0x044D495A, and the first four bytes of a zip file
ZIM_MAGIC == UnpackU32(<<90, 73, 77, 4>>)
ZIP_MAGIC == UnpackU32(<<80, 75, 3, 4>>)

ZERO == <<0>>

HeaderBytes(magic) == LET m == PackU32(magic) IN m \o <<Len(m) + 1>>

\* Block.size of the header block
header_size == Len(HeaderBytes(ZIM_MAGIC))

\* HeaderBlock.unpack_from_file: struct.error for a short read
UnpackHeader(buffer) ==
    IF Len(buffer) < header_size THEN Raised("struct.error")
    ELSE [tag |-> "header", magicNumber |-> UnpackU32(SubSeq(buffer, 1, 4)),
          mimeListPos |-> buffer[5]]

MIME_H == <<104>>
MIME_IJ == <<105, 106>>

MimeLists == {<<>>, <<MIME_H>>, <<MIME_H, MIME_IJ>>}

\* the MIME type list on disk: zero-terminated strings, then an empty one
MimeBytes(list) == Flatten([i \in 1..Len(list) |-> list[i] \o ZERO]) \o ZERO

\* a file that lacks its last k bytes
Truncated(f, k) == SubSeq(f, 1, Len(f) - MinOf(k, Len(f)))

\* files with the ZIM magic or another one, whole or cut off in the MIME type
\* list or in the last byte of the header
OpenFiles ==
    UNION {{Truncated(HeaderBytes(magic) \o MimeBytes(list), k) :
               k \in 0..(Len(MimeBytes(list)) + 1)} :
           magic \in {ZIM_MAGIC, ZIP_MAGIC}, list \in MimeLists}

\* the archive name the file is available under
OpenName == "a"

articleRest == <<clusters, cache, follow_redirect, readsLeft, apc, start,
                 index, depth, cur, cd, result, calls>>

InitOpen ==
    /\ IdleLookup
    /\ directory = <<>> /\ beyond = Raised("struct.error")
    /\ clusters = <<>> /\ cache = <<>>
    /\ follow_redirect = TRUE /\ readsLeft = 0 /\ apc = "idle"
    /\ start = 0 /\ index = 0 /\ depth = 0
    /\ cur = None /\ cd = ClusterData(0) /\ result = None /\ calls = <<>>
    /\ file \in OpenFiles
    /\ filePos = 0
    /\ zim_files = [n \in ZimNames |-> None]
    /\ index_files = [n \in ZimNames |-> None]
    /\ opened = [n \in available_zims |-> 0]
    /\ bootstrapped = [n \in available_zims |-> 0]
    /\ fpos = <<>> /\ req = <<>>
    /\ opc = "header"
    /\ header_fields = None /\ mimetypes = <<>> /\ field = <<>> /\ eofReads = 0
    /\ IdleIndex
    /\ IdleBM25 /\ IdleRoute /\ IdleSearch

\* ZIMFile.__init__: open(filename, "rb") and the unpacking of the header
ZIMFile_init_Header ==
    /\ opc = "header"
    /\ opened' = [opened EXCEPT ![OpenName] = @ + 1]
    /\ LET buffer == ReadAt(file, 0, header_size)
           h == UnpackHeader(buffer)
       IN  /\ filePos' = Len(buffer)
           /\ header_fields' = h
           /\ opc' = IF h.tag = "raise" THEN "raised" ELSE "mime_seek"
    /\ UNCHANGED <<file, mimetypes, field, eofReads>>
    /\ UNCHANGED <<zim_files, index_files, bootstrapped, fpos, req>>
    /\ UNCHANGED <<lookupVars, articleRest, indexVars, bm25Vars, routeVars,
                   searchVars>>

\* MimeTypeListBlock.unpack_from_file: file.seek(offset); mimetypes = []
MimeTypeListBlock_unpack_Seek ==
    /\ opc = "mime_seek"
    /\ filePos' = header_fields.mimeListPos
    /\ mimetypes' = <<>>
    /\ field' = <<>>
    /\ opc' = "read"
    /\ UNCHANGED <<file, header_fields, eofReads>>
    /\ UNCHANGED <<serverVars, lookupVars, articleRest, indexVars, bm25Vars,
                   routeVars,
                   searchVars>>

\* read_zero_terminated, one step of iter(partial(file.read, 1), ZERO): the
\* iteration ends with a read that equals ZERO; any other read, the empty one
\* at the end of the file included, is one more item to join
read_zero_terminated_Read ==
    /\ opc = "read"
    /\ LET b == ReadAt(file, filePos, 1)
       IN  /\ b = <<>> => eofReads < MaxEofReads
           /\ filePos' = filePos + Len(b)
           /\ eofReads' = IF b = <<>> THEN eofReads + 1 ELSE eofReads
           /\ field' = IF b = ZERO THEN field ELSE field \o b
           /\ opc' = IF b = ZERO THEN "field" ELSE "read"
    /\ UNCHANGED <<file, header_fields, mimetypes>>
    /\ UNCHANGED <<serverVars, lookupVars, articleRest, indexVars, bm25Vars,
                   routeVars,
                   searchVars>>

\* MimeTypeListBlock.unpack_from_file: the string read is appended; the empty
\* string ends the list
MimeTypeListBlock_unpack_Field ==
    /\ opc = "field"
    /\ IF field = <<>>
       THEN /\ opc' = "register"
            /\ UNCHANGED mimetypes
       ELSE /\ mimetypes' = Append(mimetypes, field)
            /\ opc' = "read"
    /\ field' = <<>>
    /\ UNCHANGED <<file, filePos, header_fields, eofReads>>
    /\ UNCHANGED <<serverVars, lookupVars, articleRest, indexVars, bm25Vars,
                   routeVars,
                   searchVars>>

\* _load_zim_file: zim_files[zim_name] = the ZIMFile just constructed
load_zim_file_Register ==
    /\ opc = "register"
    /\ zim_files' = [zim_files EXCEPT ![OpenName] = ZIMFile(OpenName, opened[OpenName])]
    /\ opc' = "done"
    /\ UNCHANGED <<file, filePos, header_fields, mimetypes, field, eofReads>>
    /\ UNCHANGED <<index_files, opened, bootstrapped, fpos, req>>
    /\ UNCHANGED <<lookupVars, articleRest, indexVars, bm25Vars, routeVars,
                   searchVars>>

NextOpen ==
    \/ ZIMFile_init_Header
    \/ MimeTypeListBlock_unpack_Seek
    \/ read_zero_terminated_Read
    \/ MimeTypeListBlock_unpack_Field
    \/ load_zim_file_Register

SpecOpen == InitOpen /\ [][NextOpen]_vars

\* C12: read_zero_terminated makes no further read once a read has returned
\* no byte (end of file before the zero byte), and from then on the open can
\* only fail: no string is returned as if its terminator had been found.
C12_ZeroTerminatedStops ==
    /\ eofReads <= 1
    /\ eofReads >= 1 => opc \in {"read", "raised"}

\* C13: for a file whose magic number is not the ZIM magic, the open fails:
\* no ZIMFile is registered for it and the load does not complete.
C13_MagicChecked ==
    (header_fields # None /\ header_fields.tag = "header"
        /\ header_fields.magicNumber # ZIM_MAGIC) =>
            /\ zim_files[OpenName] = None
            /\ opc # "done"

(***************************************************************************)
(* Loading archives and building their title indexes, one request at a     *)
(* time, over several runs of the server process.  An index file is an     *)
(* SQLite database: CREATE VIRTUAL TABLE is committed when it is executed, *)
(* the INSERTs of a build are one transaction that db.commit() ends, and a *)
(* process that is killed loses the open transaction and keeps the file.   *)
(***************************************************************************)
MaxRestarts == 1

\* the directory of the model's archives: two entries of namespace A (an
\* article and a redirect) and one of another namespace
LoadDirectory ==
    <<ArticleEntry(NS_DASH, URL_B, 0, 0), ArticleEntry(NS_A, URL_B, 0, 0),
      RedirectEntry(NS_A, URL_C, 1)>>

\* ZIMFile.__iter__: the indices of the entries of namespace "A", in order
RECURSIVE IterIndices(_, _)
IterIndices(d, n) ==
    IF n = 0 THEN <<>>
    ELSE LET e == read_directory_entry_by_index(d, Raised("struct.error"), n - 1)
         IN  IterIndices(d, n - 1)
                 \o (IF e.namespace = NS_A THEN <<e.index>> ELSE <<>>)

\* an index path at which no file exists; sqlite3.connect fails for a path
\* whose directory cannot be written
NoIndexFile(writable) ==
    [exists |-> FALSE, writable |-> writable, table |-> FALSE, records |-> <<>>]

\* _bootstrap_index: the archive the build iterates is the registered one,
\* or a second ZIMFile opened for the build when none is registered
IndexSource_reopen(files, n) == "temp_zim"

IndexSource(files, n) == IF files[n] = None THEN "temp_zim" ELSE "zim_files"

\* the positions of a request that is not being handled: not yet accepted,
\* answered, or past the registries with its archive's handles
Resting == {"waiting", "done", "ptr_seek"}

InitLoad ==
    /\ IdleLookup /\ IdleArticle /\ IdleOpen
    /\ IdleBM25 /\ IdleRoute /\ IdleSearch
    /\ directory = LoadDirectory /\ beyond = Raised("struct.error")
    /\ zim_files = [n \in ZimNames |-> None]
    /\ index_files = [n \in ZimNames |-> None]
    /\ opened = [n \in available_zims |-> 0]
    /\ bootstrapped = [n \in available_zims |-> 0]
    /\ fpos = [h \in ZIMFiles |-> 0]
    /\ req \in [Requests -> {[Request(n, i) EXCEPT !.pc = "waiting"] :
                                n \in ZimNames, i \in ServerIndices}]
    /\ index_disk \in [available_zims -> {NoIndexFile(w) : w \in BOOLEAN}]
    /\ pending = <<>>
    /\ built = [n \in available_zims |-> 0]
    /\ restarts = 0

\* the server hands a request to on_get when no other request is being
\* handled
on_get_Accept(r) ==
    /\ req[r].pc = "waiting"
    /\ \A q \in Requests : req[q].pc \in Resting
    /\ req' = [req EXCEPT ![r].pc = "check"]
    /\ UNCHANGED <<zim_files, index_files, opened, bootstrapped, fpos>>
    /\ UNCHANGED <<lookupVars, articleVars, openVars, indexVars, bm25Vars,
                   routeVars,
                   searchVars>>

\* _bootstrap_index: if not os.path.exists(index_path)
bootstrap_index_Exists(r) ==
    /\ req[r].pc = "bootstrap"
    /\ LET n == req[r].zim_name
       IN  /\ bootstrapped' = [bootstrapped EXCEPT ![n] = @ + 1]
           /\ req' = [req EXCEPT ![r].pc =
                        IF index_disk[n].exists THEN "bs_connect" ELSE "bs_create"]
    /\ UNCHANGED <<zim_files, index_files, opened, fpos>>
    /\ UNCHANGED <<lookupVars, articleVars, openVars, indexVars, bm25Vars,
                   routeVars,
                   searchVars>>

\* _bootstrap_index: sqlite3.connect(index_path), PRAGMA, CREATE VIRTUAL
\* TABLE; sqlite3.OperationalError leaves on_get when the file cannot be made
bootstrap_index_Create(r) ==
    /\ req[r].pc = "bs_create"
    /\ LET n == req[r].zim_name
       IN  IF index_disk[n].writable
           THEN /\ index_disk' = [index_disk EXCEPT ![n].exists = TRUE,
                                                   ![n].table = TRUE]
                /\ req' = [req EXCEPT ![r].pc = "bs_insert"]
           ELSE /\ req' = [req EXCEPT ![r].pc = "done", ![r].status = 500]
                /\ UNCHANGED index_disk
    /\ UNCHANGED <<pending, built, restarts>>
    /\ UNCHANGED <<zim_files, index_files, opened, bootstrapped, fpos>>
    /\ UNCHANGED <<lookupVars, articleVars, openVars, bm25Vars, routeVars,
                   searchVars>>

\* _bootstrap_index: one INSERT (docid, title) per article the iteration of
\* the archive yields
bootstrap_index_Insert(r) ==
    /\ req[r].pc = "bs_insert"
    /\ LET n == req[r].zim_name
       IN  /\ opened' = IF IndexSource(zim_files, n) = "temp_zim"
                         THEN [opened EXCEPT ![n] = @ + 1] ELSE opened
           /\ pending' = IterIndices(directory, articleCount)
    /\ req' = [req EXCEPT ![r].pc = "bs_commit"]
    /\ UNCHANGED <<index_disk, built, restarts>>
    /\ UNCHANGED <<zim_files, index_files, bootstrapped, fpos>>
    /\ UNCHANGED <<lookupVars, articleVars, openVars, bm25Vars, routeVars,
                   searchVars>>

\* _bootstrap_index: db.commit(); db.close()
bootstrap_index_Commit(r) ==
    /\ req[r].pc = "bs_commit"
    /\ LET n == req[r].zim_name
       IN  /\ index_disk' = [index_disk EXCEPT ![n].records = @ \o pending]
           /\ built' = [built EXCEPT ![n] = @ + 1]
    /\ pending' = <<>>
    /\ req' = [req EXCEPT ![r].pc = "bs_connect"]
    /\ UNCHANGED restarts
    /\ UNCHANGED <<zim_files, index_files, opened, bootstrapped, fpos>>
    /\ UNCHANGED <<lookupVars, articleVars, openVars, bm25Vars, routeVars,
                   searchVars>>

\* _bootstrap_index: return sqlite3.connect(index_path), which _load_zim_file
\* stores in index_files[zim_name]
bootstrap_index_Connect(r) ==
    /\ req[r].pc = "bs_connect"
    /\ LET n == req[r].zim_name
       IN  index_files' = [index_files EXCEPT
                             ![n] = [name |-> n, id |-> bootstrapped[n]]]
    /\ req' = [req EXCEPT ![r].pc = "registry"]
    /\ UNCHANGED <<zim_files, opened, bootstrapped, fpos>>
    /\ UNCHANGED <<lookupVars, articleVars, openVars, indexVars, bm25Vars,
                   routeVars,
                   searchVars>>

\* the server process is killed and started again: the registries and an
\* open transaction are lost, the request in flight gets no answer, the
\* index files stay as they are on disk
Restart ==
    /\ restarts < MaxRestarts
    /\ restarts' = restarts + 1
    /\ zim_files' = [n \in ZimNames |-> None]
    /\ index_files' = [n \in ZimNames |-> None]
    /\ opened' = [n \in available_zims |-> 0]
    /\ bootstrapped' = [n \in available_zims |-> 0]
    /\ fpos' = [h \in ZIMFiles |-> 0]
    /\ pending' = <<>>
    /\ req' = [r \in Requests |->
                 IF req[r].pc \in Resting THEN req[r]
                 ELSE [req[r] EXCEPT !.pc = "done"]]
    /\ UNCHANGED <<index_disk, built>>
    /\ UNCHANGED <<lookupVars, articleVars, openVars, bm25Vars, routeVars,
                   searchVars>>

NextLoad ==
    \/ \E r \in Requests :
        \/ on_get_Accept(r)
        \/ on_get_Check(r)
        \/ load_zim_file_Open(r)
        \/ bootstrap_index_Exists(r)
        \/ bootstrap_index_Create(r)
        \/ bootstrap_index_Insert(r)
        \/ bootstrap_index_Commit(r)
        \/ bootstrap_index_Connect(r)
        \/ on_get_Registry(r)
    \/ Restart

SpecLoad == InitLoad /\ [][NextLoad]_vars

\* C14: a failure to build or open the index of an archive makes no request
\* for that archive fail: no request that names an available archive is
\* answered with an error.
C14_IndexFailureKeepsArticles ==
    \A r \in Requests :
        req[r].zim_name \in available_zims => req[r].status # 500

\* C15: an index handle in the registry is over an index file that holds
\* exactly one record per namespace-A entry of the archive, the docid being
\* the entry's index; and the index of an archive is built at most once,
\* however often the archive is loaded and the process restarted.
C15_IndexComplete ==
    \A n \in available_zims :
        /\ index_files[n] # None =>
              /\ index_disk[n].table
              /\ index_disk[n].records = IterIndices(directory, articleCount)
        /\ built[n] <= 1

\* C20: in a first load the archive is registered before its index is
\* bootstrapped, the build iterates the registered archive, and the archive
\* file is opened exactly once.
C20_BuildUsesLoadedArchive ==
    \A n \in available_zims :
        /\ opened[n] <= 1
        /\ bootstrapped[n] > 0 => (zim_files[n] # None /\ opened[n] = 1)

\* an archive has been loaded and its index built by that load
C20_Witness ==
    \E n \in available_zims :
        /\ restarts = 0
        /\ built[n] = 1
        /\ index_files[n] # None
        /\ index_disk[n].records = IterIndices(directory, articleCount)
        /\ opened[n] = 1

\* C22: whenever a request handler is about to look at the registries, every
\* archive name registered in zim_files is registered in index_files too.
C22_RegistryPairing ==
    \A r \in Requests :
        req[r].pc \in {"check", "registry"} =>
            \A n \in ZimNames : zim_files[n] # None => index_files[n] # None

(***************************************************************************)
(* BM25.calculate_scores(query, corpus).  Terms and documents are strings  *)
(* (sequences of code points).  The value of a score is the sum over the   *)
(* terms of idf * doc_k1 / (doc_freq + k1 * doc_b); the model keeps, per   *)
(* document and term, the numbers it is made of: the argument of the       *)
(* logarithm as the fraction (2 * frequency + 1) / (2 * (corpus_size -     *)
(* frequency) + 1), and doc_freq.                                          *)
(***************************************************************************)
MaxQuery == 2
MaxCorpus == 2

SPACE == 32

\* str.lower()
Lower(str) ==
    [i \in 1..Len(str) |-> IF str[i] >= 65 /\ str[i] <= 90 THEN str[i] + 32
                           ELSE str[i]]

RECURSIVE SplitFrom(_, _, _, _)
SplitFrom(str, i, word, out) ==
    LET closed == IF word = <<>> THEN out ELSE Append(out, word)
    IN  IF i > Len(str) THEN closed
        ELSE IF str[i] = SPACE THEN SplitFrom(str, i + 1, <<>>, closed)
        ELSE SplitFrom(str, i + 1, Append(word, str[i]), out)

\* str.split(): the words between runs of whitespace
Split(str) == SplitFrom(str, 1, <<>>, <<>>)

\* list.count(term)
Count(document, term) ==
    Cardinality({i \in 1..Len(document) : document[i] = term})

RECURSIVE SumCounts(_, _, _)
\* sum(document.count(term) for document in corpus), over the first n documents
SumCounts(docs, term, n) ==
    IF n = 0 THEN 0 ELSE SumCounts(docs, term, n - 1) + Count(docs[n], term)

RECURSIVE SumLens(_, _)
SumLens(docs, n) == IF n = 0 THEN 0 ELSE SumLens(docs, n - 1) + Len(docs[n])

\* the terms "c", "C" and "d"
Terms == {<<99>>, <<67>>, <<100>>}

\* the titles "c", "c c", "C d", "d", "cd" and ""
Documents ==
    {<<99>>, <<99, 32, 99>>, <<67, 32, 100>>, <<100>>, <<99, 100>>, <<>>}

\* corpus = [document.lower().split() for document in corpus]
Lowered(c) == [i \in 1..Len(c) |-> Split(Lower(c[i]))]

\* the number of documents that contain the term
Frequency_documents(docs, term) ==
    Cardinality({i \in 1..Len(docs) : Count(docs[i], term) > 0})

\* frequency = sum(document.count(term) for document in corpus)
Frequency(docs, term) == SumCounts(docs, term, Len(docs))

InitBM25 ==
    /\ IdleLookup /\ IdleArticle /\ IdleServer /\ IdleOpen /\ IdleIndex /\ IdleRoute
    /\ IdleSearch
    /\ directory = <<>> /\ beyond = Raised("struct.error")
    /\ query \in SeqsUpTo(Terms, MaxQuery) \ {<<>>}
    /\ corpus \in SeqsUpTo(Documents, MaxCorpus)
    /\ bpc = "call"
    /\ query_terms = <<>>
    /\ scores = None

\* calculate_scores up to the (term, frequency) pairs; the average document
\* length divides by len(corpus)
calculate_scores_Terms ==
    /\ bpc = "call"
    /\ IF Len(corpus) = 0
       THEN /\ scores' = Raised("ZeroDivisionError")
            /\ bpc' = "done"
            /\ UNCHANGED query_terms
       ELSE /\ query_terms' =
                 [k \in 1..Len(query) |->
                     [term |-> Lower(query[k]),
                      frequency |-> Frequency(Lowered(corpus), Lower(query[k]))]]
            /\ bpc' = "score"
            /\ UNCHANGED scores
    /\ UNCHANGED <<query, corpus>>
    /\ UNCHANGED <<lookupVars, articleVars, serverVars, openVars, indexVars,
                   routeVars,
                   searchVars>>

\* what one (document, term) pair adds to a score
ScorePart(docs, i, qt) ==
    [idf |-> <<2 * qt.frequency + 1, 2 * (Len(docs) - qt.frequency) + 1>>,
     doc_freq |-> Count(docs[i], qt.term)]

\* the scoring loop: math.log raises ValueError for an argument that is not
\* positive, and doc_lens[i] / avg_doc_len divides by the average length
calculate_scores_Score ==
    /\ bpc = "score"
    /\ LET docs == Lowered(corpus)
       IN  scores' =
             IF \E k \in 1..Len(query_terms) :
                    query_terms[k].frequency > Len(docs)
             THEN Raised("ValueError")
             ELSE IF SumLens(docs, Len(docs)) = 0
             THEN Raised("ZeroDivisionError")
             ELSE [tag |-> "scores",
                   parts |-> [i \in 1..Len(docs) |->
                                [k \in 1..Len(query_terms) |->
                                    ScorePart(docs, i, query_terms[k])]]]
    /\ bpc' = "done"
    /\ UNCHANGED <<query, corpus, query_terms>>
    /\ UNCHANGED <<lookupVars, articleVars, serverVars, openVars, indexVars,
                   routeVars,
                   searchVars>>

NextBM25 ==
    \/ calculate_scores_Terms
    \/ calculate_scores_Score

SpecBM25 == InitBM25 /\ [][NextBM25]_vars

\* C16: the frequency that enters the idf of a query term is the number of
\* candidate documents that contain the term, each document counted once.
C16_DocumentFrequency ==
    \A k \in 1..Len(query_terms) :
        query_terms[k].frequency
            = Frequency_documents(Lowered(corpus), query_terms[k].term)

\* C21: for every query and every corpus that is not empty, calculate_scores
\* returns one score per document, in corpus order, and raises nothing.
C21_CalculateScoresTotal ==
    (bpc = "done" /\ Len(corpus) > 0)
        => /\ scores.tag = "scores"
           /\ Len(scores.parts) = Len(corpus)

\* ------------------------------------------------------------------------
\* on_get: from the request's location to the (namespace, url) looked up
\* ------------------------------------------------------------------------

MaxPath == 5

RECURSIVE LStrip(_)
LStrip(str) ==
    IF str # <<>> /\ <<Head(str)>> = SLASH THEN LStrip(Tail(str)) ELSE str

RECURSIVE RStrip(_)
RStrip(str) ==
    IF str # <<>> /\ <<str[Len(str)]>> = SLASH
    THEN RStrip(SubSeq(str, 1, Len(str) - 1))
    ELSE str

\* str.strip('/')
Strip(str) == RStrip(LStrip(str))

RECURSIVE SplitSlashFrom(_, _, _, _)
SplitSlashFrom(str, i, word, out) ==
    IF i > Len(str) THEN Append(out, word)
    ELSE IF <<str[i]>> = SLASH
    THEN SplitSlashFrom(str, i + 1, <<>>, Append(out, word))
    ELSE SplitSlashFrom(str, i + 1, Append(word, str[i]), out)

\* str.split('/'): empty segments are kept, and the result is never empty
SplitSlash(str) == SplitSlashFrom(str, 1, <<>>, <<>>)

RECURSIVE Join(_)
\* '/'.join(parts)
Join(parts) ==
    IF parts = <<>> THEN <<>>
    ELSE IF Len(parts) = 1 THEN parts[1]
    ELSE parts[1] \o SLASH \o Join(Tail(parts))

\* the archive names as they appear in a location: "a" and "b"
ZimNameOf(str) ==
    IF str = <<97>> THEN "a" ELSE IF str = <<98>> THEN "b" ELSE "x"

\* "/", "/index.htm", "/index.html", "/main.htm", "/main.html"
MainPages ==
    {SLASH,
     <<47, 105, 110, 100, 101, 120, 46, 104, 116, 109>>,
     <<47, 105, 110, 100, 101, 120, 46, 104, 116, 109, 108>>,
     <<47, 109, 97, 105, 110, 46, 104, 116, 109>>,
     <<47, 109, 97, 105, 110, 46, 104, 116, 109, 108>>}

\* the characters '/', 'A' and 'o' of the path behind the archive name
PathChars == {47, 65, 111}

\* the requests "/a" followed by up to MaxPath characters, with no query
\* string; none of them starts with a namespace prefix such as "/A/"
Locations == {<<47, 97>> \o rest : rest \in SeqsUpTo(PathChars, MaxPath)}

\* both archives are loaded when the request arrives
InitRoute ==
    /\ IdleLookup /\ IdleArticle /\ IdleOpen /\ IdleIndex /\ IdleBM25
    /\ IdleSearch
    /\ directory = <<>> /\ beyond = Raised("struct.error")
    /\ zim_files = [n \in ZimNames |->
                      IF n \in available_zims THEN ZIMFile(n, 1) ELSE None]
    /\ index_files = [n \in ZimNames |->
                        IF n \in available_zims THEN [name |-> n, id |-> 1]
                        ELSE None]
    /\ opened = [n \in available_zims |-> 1]
    /\ bootstrapped = [n \in available_zims |-> 1]
    /\ fpos = [h \in ZIMFiles |-> urlPtrPos]
    /\ req = <<>>
    /\ location \in Locations
    /\ route = None

\* on_get up to resource_path: the archive named by the first component
on_get_Archive ==
    /\ route = None
    /\ location # <<>>
    /\ LET url_parts == SplitSlash(Strip(location))
           zim_name == url_parts[1]
       IN  route' =
             IF zim_name = <<>> THEN [tag |-> "zim_list"]
             ELSE IF zim_files[ZimNameOf(zim_name)] = None
             THEN [tag |-> "not_found"]
             ELSE [tag |-> "resource",
                   zim_name |-> ZimNameOf(zim_name),
                   resource_path |-> SLASH \o Join(Tail(url_parts))]
    /\ UNCHANGED location
    /\ UNCHANGED <<lookupVars, articleVars, serverVars, openVars, indexVars,
                   bm25Vars,
                   searchVars>>

\* on_get from resource_path to the call of get_main_page or
\* get_article_by_url(namespace, url)
on_get_Lookup ==
    /\ route.tag = "resource"
    /\ LET parts == SplitSlash(Strip(route.resource_path))
       IN  route' =
             IF route.resource_path \in MainPages
             THEN [tag |-> "main", zim_name |-> route.zim_name]
             ELSE IF Len(parts[1]) > 1
             THEN [tag |-> "lookup", zim_name |-> route.zim_name,
                   namespace |-> NS_A, url |-> parts[1]]
             ELSE [tag |-> "lookup", zim_name |-> route.zim_name,
                   namespace |-> parts[1], url |-> Join(Tail(parts))]
    /\ UNCHANGED location
    /\ UNCHANGED <<lookupVars, articleVars, serverVars, openVars, indexVars,
                   bm25Vars,
                   searchVars>>

NextRoute ==
    \/ on_get_Archive
    \/ on_get_Lookup

SpecRoute == InitRoute /\ [][NextRoute]_vars

\* the segments of the location behind the archive name
PathAfterArchive == Tail(SplitSlash(Strip(location)))

\* C17: when the first segment behind the archive name is longer than one
\* character, the handler looks up namespace A with all the segments behind
\* the archive name, joined by '/', as url.
C17_DefaultNamespaceRouting ==
    (/\ route.tag = "lookup"
     /\ PathAfterArchive # <<>>
     /\ Len(PathAfterArchive[1]) > 1)
        => /\ route.namespace = NS_A
           /\ route.url = Join(PathAfterArchive)

\* ------------------------------------------------------------------------
\* on_get, search branch: from the rows of the title index to the entries
\* listed on the result page
\* ------------------------------------------------------------------------

MaxSearch == 3

\* the url of the entry with index i: "B", "BB", "BBB", ... (sorted)
SearchUrl(i) == [j \in 1..(i + 1) |-> 66]

\* archives of n entries of namespace A, each an article or a redirect to
\* one of the n indices
SearchDirectories ==
    UNION {{d \in [1..n ->
                     {ArticleEntry(NS_A, SearchUrl(i), 0, 0) : i \in 0..(n - 1)}
                       \cup {RedirectEntry(NS_A, SearchUrl(i), k) :
                                i \in 0..(n - 1), k \in 0..(n - 1)}] :
               \A i \in 1..n : d[i].url = SearchUrl(i - 1)} :
           n \in 1..MaxSearch}

\* cursor.fetchall(): the docids of the titles that match, each docid once, in
\* the order the index returns them
Rows(d) ==
    {r \in SeqsUpTo(0..(Len(d) - 1), Len(d)) :
        \A i, j \in 1..Len(r) : i # j => r[i] # r[j]}

InitSearch ==
    /\ IdleArticle /\ IdleServer /\ IdleOpen /\ IdleIndex /\ IdleBM25
    /\ IdleRoute
    /\ IdleLookup
    /\ directory \in SearchDirectories
    /\ beyond = Raised("struct.error")
    /\ results \in Rows(directory)
    /\ entries = <<>>
    /\ redirects = <<>>
    /\ spc = "hits"

\* Python's truth value of entry.get('redirectIndex'): None for an entry
\* without the key, else the integer, which is false when it is 0
HasRedirectIndex(e) == IsRedirect(e) /\ e.redirectIndex # 0

\* SelectSeq with the test applied to an entry and a set of indices
RECURSIVE Keep(_, _, _)
Keep(seq, indexes, n) ==
    IF n = 0 THEN <<>>
    ELSE Keep(seq, indexes, n - 1)
            \o (IF seq[n].redirectIndex \notin indexes THEN <<seq[n]>> ELSE <<>>)

RECURSIVE Classify(_, _, _, _)
\* the loop over the rows: the pair <<entries, redirects>> after n rows
Classify(d, b, rows, n) ==
    IF n = 0 THEN <<(<<>>), (<<>>)>>
    ELSE LET before == Classify(d, b, rows, n - 1)
             e == read_directory_entry_by_index(d, b, rows[n])
         IN  IF HasRedirectIndex(e)
             THEN <<before[1], Append(before[2], e)>>
             ELSE <<Append(before[1], e), before[2]>>

\* on_get: results = cursor.fetchall(); each row's entry goes to redirects
\* or to entries
on_get_SearchRows ==
    /\ spc = "hits"
    /\ IF results = <<>>
       THEN /\ spc' = "done"
            /\ UNCHANGED <<entries, redirects>>
       ELSE LET lists == Classify(directory, beyond, results, Len(results))
            IN  /\ entries' = lists[1]
                /\ redirects' = lists[2]
                /\ spc' = "chain"
    /\ UNCHANGED results
    /\ UNCHANGED <<lookupVars, articleVars, serverVars, openVars, indexVars,
                   bm25Vars, routeVars>>

\* on_get: the redirects whose target is among the entries are dropped, the
\* others are listed behind the entries
on_get_SearchChain ==
    /\ spc = "chain"
    /\ LET indexes == {entries[i].index : i \in 1..Len(entries)}
           kept == Keep(redirects, indexes, Len(redirects))
       IN  /\ redirects' = kept
           /\ entries' = entries \o kept
    /\ spc' = "done"
    /\ UNCHANGED results
    /\ UNCHANGED <<lookupVars, articleVars, serverVars, openVars, indexVars,
                   bm25Vars, routeVars>>

NextSearch ==
    \/ on_get_SearchRows
    \/ on_get_SearchChain

SpecSearch == InitSearch /\ [][NextSearch]_vars

\* the entry a row stands for
Hit(k) == read_directory_entry_by_index(directory, beyond, results[k])

\* the hit is a redirect to an article that is a hit itself
Redundant(k) ==
    /\ IsRedirect(Hit(k))
    /\ \E j \in 1..Len(results) :
          ~IsRedirect(Hit(j)) /\ Hit(j).index = Hit(k).redirectIndex

\* C23: the list of search results never holds an article together with a
\* redirect to that article, whatever the article's index, and every hit
\* that is not such a redirect is listed exactly once.
C23_NoDuplicateThroughRedirect ==
    spc = "done" =>
        /\ \A i, j \in 1..Len(entries) :
              ~(/\ ~IsRedirect(entries[i])
                /\ IsRedirect(entries[j])
                /\ entries[j].redirectIndex = entries[i].index)
        /\ \A k \in 1..Len(results) :
              ~Redundant(k) =>
                 Cardinality({i \in 1..Len(entries) :
                                 entries[i].index = results[k]}) = 1

==========================================================================
